---- MODULE Spec2Model ----
(***************************************************************************)
(* Model of src/app.py: a Flask webhook with one route, POST /ask, that    *)
(* forwards the user's message to a generative model and appends static    *)
(* study-resource links matched by keyword.                                *)
(*                                                                         *)
(* Text is modelled by TLA+ strings, which TLC treats as sequences of      *)
(* characters (Len, SubSeq and \o work on them), so substring matching,    *)
(* lower-casing and strip() are computed character by character.           *)
(* The module is ASCII: the book emoji that opens the resources header in  *)
(* the source is left out of ResourcesHeader.                              *)
(***************************************************************************)
EXTENDS Integers, Sequences, FiniteSets, TLC

VARIABLES
    phase,            \* "boot" before the module-level setup ran, then "ready", "responded"
    model,            \* the global model handle: "None" or "GenerativeModel"
    study_resources,  \* the global keyword table, in dict insertion order
    request,          \* the body of the request being answered
    upstream,         \* what the external model does when called for this request
    response,         \* the HTTP response of the last request
    trace,            \* the calls the handler made for the last request, in order
    sent,             \* the arguments passed to model.generate_content, in order
    user_message,     \* local of ask(): the extracted message
    gemini_reply,     \* local of ask(): the model gateway's reply text
    resources,        \* local of ask(): what get_resources_from_query returned
    resource_e,       \* TRUE when the resource lookup raised inside ask()
    client,           \* what the client holds: whether a response arrived, and its context
    rounds,           \* number of consecutive round trips of the client
    query,            \* argument of a direct call of get_resources_from_query
    matched_links,    \* its result
    applied           \* TRUE once get_resources_from_query ran on query

vars == <<phase, model, study_resources, request, upstream, response, trace, sent,
          user_message, gemini_reply, resources, resource_e, client, rounds,
          query, matched_links, applied>>

askVars == <<phase, model, request, upstream, response, trace, sent,
             user_message, gemini_reply, resources, resource_e, client, rounds>>

matcherVars == <<query, matched_links, applied>>

(***************************************************************************)
(* Bounds                                                                  *)
(***************************************************************************)
MaxQueryPieces == 2   \* pieces concatenated into a query of the matcher
MaxMsgPieces == 1     \* pieces concatenated into a message sent to /ask
MaxReplyLen == 3      \* characters of a candidate text returned by the model
MaxCtxLen == 2        \* entries of a conversation context submitted by a client
MaxRounds == 2        \* consecutive round trips of one client
MaxDepth == 3         \* largest context depth limit D the spec's bound is tried with

(***************************************************************************)
(* Python values, as far as the handler looks at them: the type, the text  *)
(* of a str and the truth value.                                           *)
(***************************************************************************)
Val(t, s, ne) == [t |-> t, s |-> s, nonempty |-> ne]

NoneVal == Val("none", "", FALSE)

StrVal(s) == Val("str", s, s # "")

NumVal(nonzero) == Val("num", "", nonzero)

BoolVal(b) == Val("bool", "", b)

ListVal(ne) == Val("list", "", ne)

DictVal(ne) == Val("dict", "", ne)

\* Python's truth test, `not x` being ~Truthy(x)
Truthy(v) == v.nonempty

(***************************************************************************)
(* str primitives                                                          *)
(***************************************************************************)
LowerChar(c) ==
    CASE c = "A" -> "a" [] c = "B" -> "b" [] c = "C" -> "c" [] c = "D" -> "d"
      [] c = "E" -> "e" [] c = "F" -> "f" [] c = "G" -> "g" [] c = "H" -> "h"
      [] c = "I" -> "i" [] c = "J" -> "j" [] c = "K" -> "k" [] c = "L" -> "l"
      [] c = "M" -> "m" [] c = "N" -> "n" [] c = "O" -> "o" [] c = "P" -> "p"
      [] c = "Q" -> "q" [] c = "R" -> "r" [] c = "S" -> "s" [] c = "T" -> "t"
      [] c = "U" -> "u" [] c = "V" -> "v" [] c = "W" -> "w" [] c = "X" -> "x"
      [] c = "Y" -> "y" [] c = "Z" -> "z" [] OTHER -> c

RECURSIVE Lower(_)
\* str.lower()
Lower(s) ==
    IF Len(s) = 0 THEN ""
    ELSE LowerChar(SubSeq(s, 1, 1)) \o Lower(SubSeq(s, 2, Len(s)))

\* `k in s` for two str
PyIn(k, s) == \E i \in 1..(Len(s) - Len(k) + 1) : SubSeq(s, i, i + Len(k) - 1) = k

IsSpace(c) == c \in {" ", "\n", "\t", "\r", "\f"}

RECURSIVE LStrip(_)
LStrip(s) ==
    IF Len(s) > 0 /\ IsSpace(SubSeq(s, 1, 1)) THEN LStrip(SubSeq(s, 2, Len(s))) ELSE s

RECURSIVE RStrip(_)
RStrip(s) ==
    IF Len(s) > 0 /\ IsSpace(SubSeq(s, Len(s), Len(s)))
    THEN RStrip(SubSeq(s, 1, Len(s) - 1)) ELSE s

\* str.strip()
Strip(s) == RStrip(LStrip(s))

(***************************************************************************)
(* The static resource table                                               *)
(***************************************************************************)
StudyResources ==
    << [keyword |-> "biology",
        links |-> << "Khan Academy Biology (https://www.khanacademy.org/science/biology)",
                     "Nature Biology Subject Page (https://www.nature.com/subjects/biology)" >>],
       [keyword |-> "photosynthesis",
        links |-> << "Khan Academy - Photosynthesis (https://www.khanacademy.org/science/biology/photosynthesis-in-plants)",
                     "Britannica - Photosynthesis (https://www.britannica.com/science/photosynthesis)" >>],
       [keyword |-> "quantum physics",
        links |-> << "Stanford Encyclopedia of Philosophy - Quantum Mechanics (https://plato.stanford.edu/entries/qm/)",
                     "Khan Academy - Quantum Physics (https://www.khanacademy.org/science/physics/quantum-physics)" >>],
       [keyword |-> "calculus",
        links |-> << "Khan Academy Calculus 1 (https://www.khanacademy.org/math/calculus-1)",
                     "MIT OCW Single Variable Calculus (https://ocw.mit.edu/courses/18-01sc-single-variable-calculus-fall-2010/)" >>],
       [keyword |-> "python",
        links |-> << "Official Python Tutorial (https://docs.python.org/3/tutorial/)",
                     "Real Python Website (https://realpython.com/)" >>],
       [keyword |-> "jee",
        links |-> << "Embibe JEE Study Material (https://www.embibe.com/exams/jee-main-study-material/)",
                     "Khan Academy JEE Prep (https://www.khanacademy.org/test-prep/jee)" >>] >>

(***************************************************************************)
(* get_resources_from_query                                                *)
(***************************************************************************)
RECURSIVE MatchLoop(_, _, _, _, _)
\* for keyword, links in study_resources.items(): the state of the loop is
\* the position i, matched_links and found_keywords
MatchLoop(table, query_lower, i, links, found) ==
    IF i > Len(table) THEN links
    ELSE LET keyword == table[i].keyword IN
         IF PyIn(keyword, query_lower) /\ keyword \notin found
         THEN MatchLoop(table, query_lower, i + 1, links \o table[i].links, found \cup {keyword})
         ELSE MatchLoop(table, query_lower, i + 1, links, found)

\* the function applied to a str that misses the lower-casing
get_resources_no_lower(table, q) ==
    IF ~Truthy(q) THEN [raised |-> FALSE, links |-> << >>]
    ELSE IF q.t # "str" THEN [raised |-> TRUE, links |-> << >>]
    ELSE [raised |-> FALSE, links |-> MatchLoop(table, q.s, 1, << >>, {})]

\* q is any Python value: a falsy one returns [] at once, a truthy one that
\* is not a str has no lower() and raises AttributeError
get_resources_from_query(table, q) ==
    IF ~Truthy(q) THEN [raised |-> FALSE, links |-> << >>]
    ELSE IF q.t # "str" THEN [raised |-> TRUE, links |-> << >>]
    ELSE [raised |-> FALSE, links |-> MatchLoop(table, Lower(q.s), 1, << >>, {})]

(***************************************************************************)
(* Inputs of the matcher                                                   *)
(***************************************************************************)
QueryPieces ==
    { "JEE", "jee", "Py", "thon", "python", " ", "biology", "Bio", "logy",
      "Quantum", " physics", "calculus", "Photosynthesis", "x" }

RECURSIVE Concats(_, _)
\* the strings made of at most n pieces
Concats(pieces, n) ==
    IF n = 0 THEN {""}
    ELSE LET shorter == Concats(pieces, n - 1)
         IN  shorter \cup { p \o q : p \in shorter, q \in pieces }

Queries == { StrVal(s) : s \in Concats(QueryPieces, MaxQueryPieces) } \cup {NoneVal}

(***************************************************************************)
(* Request bodies.  raw tells what request.get_json(silent=True) finds:    *)
(* no body, a body that is not JSON, or the JSON value val.  For a JSON    *)
(* object the keys the handler or a client cares about are listed.         *)
(***************************************************************************)
QueryResult(v, hasQT, qt) == [val |-> v, hasQueryText |-> hasQT, queryText |-> qt]

NoQueryResult == QueryResult(NoneVal, FALSE, NoneVal)

Body(raw, v, hasQR, qr, hasCtx, ctx, hasCM, cm) ==
    [raw |-> raw, val |-> v, hasQueryResult |-> hasQR, queryResult |-> qr,
     hasContext |-> hasCtx, context |-> ctx,
     hasCurrentMessage |-> hasCM, currentMessage |-> cm]

\* a body that is no JSON object
PlainBody(raw, v) == Body(raw, v, FALSE, NoQueryResult, FALSE, << >>, FALSE, NoneVal)

\* {"queryResult": qr}
WebhookBody(qr) == Body("json", DictVal(TRUE), TRUE, qr, FALSE, << >>, FALSE, NoneVal)

\* {"context": ctx, "currentMessage": cm}
ContextBody(ctx, cm) == Body("json", DictVal(TRUE), FALSE, NoQueryResult, TRUE, ctx, TRUE, cm)

NoBody == PlainBody("none", NoneVal)

MsgPieces == { "Explain photosynthesis", "JEE and Python", "hello", " biology", "Calculus?" }

Messages == Concats(MsgPieces, MaxMsgPieces) \ {""}

Exchanges == { [role |-> "user", content |-> "q"], [role |-> "bot", content |-> "a"] }

Contexts == UNION { [1..n -> Exchanges] : n \in 0..MaxCtxLen }

\* values of queryText that are not a non-empty str
OddQueryTexts ==
    { NoneVal, StrVal(""), NumVal(FALSE), NumVal(TRUE), ListVal(FALSE), ListVal(TRUE),
      DictVal(TRUE), BoolVal(TRUE) }

AbsentBodies == { PlainBody("absent", NoneVal), PlainBody("unparseable", NoneVal) }

FalsyJsonBodies ==
    { PlainBody("json", v) :
        v \in { NoneVal, BoolVal(FALSE), NumVal(FALSE), StrVal(""), ListVal(FALSE), DictVal(FALSE) } }

NonObjectBodies ==
    { PlainBody("json", v) : v \in { BoolVal(TRUE), NumVal(TRUE), StrVal("hello"), ListVal(TRUE) } }

\* {"queryResult": x} with x not an object
BadQueryResultBodies ==
    { WebhookBody(QueryResult(v, FALSE, NoneVal)) :
        v \in { NoneVal, StrVal("python"), StrVal(""), NumVal(FALSE), NumVal(TRUE),
                ListVal(FALSE), ListVal(TRUE), BoolVal(TRUE) } }

\* an object with no queryResult, {"queryResult": {}} and
\* {"queryResult": {...}} without queryText
NoMessageBodies ==
    { PlainBody("json", DictVal(TRUE)),
      WebhookBody(QueryResult(DictVal(FALSE), FALSE, NoneVal)),
      WebhookBody(QueryResult(DictVal(TRUE), FALSE, NoneVal)) }

OddMessageBodies == { WebhookBody(QueryResult(DictVal(TRUE), TRUE, qt)) : qt \in OddQueryTexts }

MessageBodies == { WebhookBody(QueryResult(DictVal(TRUE), TRUE, StrVal(m))) : m \in Messages }

ContextBodies ==
    { ContextBody(ctx, StrVal(m)) : ctx \in Contexts, m \in Messages \cup {""} }
    \cup { Body("json", DictVal(TRUE), FALSE, NoQueryResult, TRUE, ctx, FALSE, NoneVal) :
             ctx \in Contexts }

Bodies ==
    AbsentBodies \cup FalsyJsonBodies \cup NonObjectBodies \cup BadQueryResultBodies
    \cup NoMessageBodies \cup OddMessageBodies \cup MessageBodies \cup ContextBodies

(***************************************************************************)
(* What the external model does when generate_content is called: it        *)
(* raises, or returns a result without candidates (with or without a block *)
(* reason), or returns a candidate whose text can or cannot be extracted.  *)
(***************************************************************************)
Outcome(kind, error, reason, text) ==
    [kind |-> kind, error |-> error, block_reason |-> reason, text |-> text]

NoOutcome == Outcome("none", "", "", "")

ErrorTexts == { "503 upstream unavailable", "ValueError: finish_reason is 2" }

BlockReasons == { "", "SAFETY", "OTHER" }

ReplyChars == { " ", "\n", "o" }

ReplyTexts == Concats(ReplyChars, MaxReplyLen)

Outcomes ==
    { Outcome("raise", e, "", "") : e \in ErrorTexts }
    \cup { Outcome("no_candidates", "", r, "") : r \in BlockReasons }
    \cup { Outcome("text_raises", e, "", "") : e \in ErrorTexts }
    \cup { Outcome("candidates", "", "", t) : t \in ReplyTexts }

IsFailure(o) == o.kind \in { "raise", "no_candidates", "text_raises" }

(***************************************************************************)
(* The fixed texts of the handler                                          *)
(***************************************************************************)
ModelDownText == "Sorry, the AI model connection is down."

InvalidRequestText == "Error: Invalid request received."

NoMessageText == "I didn't receive a message to process."

NoCandidatesText == "I couldn't generate a response, possibly due to content restrictions."

ExtractErrorText == "Sorry, there was an issue reading the AI's response."

ApiErrorText == "Sorry, there was a technical problem contacting the AI assistant."

UnexpectedErrorText == "An unexpected server error occurred."

ResourcesHeader == "\n\n**Here are some potentially helpful resources:**\n"

(***************************************************************************)
(* The module-level setup: the value of the global `model` afterwards      *)
(***************************************************************************)
InitModel(api_key, configure_ok, construct_ok, test) ==
    IF ~api_key THEN "None"                       \* EnvironmentError
    ELSE IF ~configure_ok \/ ~construct_ok THEN "None"
    ELSE IF test.kind = "raise" THEN "None"       \* the test generation raised
    ELSE IF test.kind = "no_candidates" THEN "GenerativeModel"   \* only a warning
    ELSE IF test.kind = "text_raises" THEN "None" \* test_response.text raised
    ELSE "GenerativeModel"

(***************************************************************************)
(* ask()                                                                   *)
(***************************************************************************)
\* a JSON response carrying a context list next to the text
JsonifyWithContext(status, text) ==
    [status |-> status, keys |-> {"fulfillmentText", "context"},
     fulfillmentText |-> text, context |-> << >>]

\* return jsonify({"fulfillmentText": text}), status
Jsonify(status, text) ==
    [status |-> status, keys |-> {"fulfillmentText"},
     fulfillmentText |-> text, context |-> << >>]

NoClient == [received |-> FALSE, context |-> << >>]

NoResponse == [status |-> 0, keys |-> {}, fulfillmentText |-> "", context |-> << >>]

\* request.get_json(silent=True)
get_json(body) == IF body.raw = "json" THEN body.val ELSE NoneVal

\* the test `req_data is None`
IsNone(req_data) == req_data.t = "none"

\* the test `not req_data`
IsInvalid(req_data) == ~Truthy(req_data)

\* req_data.get("queryResult", {}).get("queryText"): AttributeError when
\* req_data or the queryResult value has no get()
ExtractUserMessage(body) ==
    IF body.val.t # "dict" THEN [raised |-> TRUE, value |-> NoneVal]
    ELSE LET qr == IF body.hasQueryResult THEN body.queryResult
                   ELSE QueryResult(DictVal(FALSE), FALSE, NoneVal)
         IN  IF qr.val.t # "dict" THEN [raised |-> TRUE, value |-> NoneVal]
             ELSE [raised |-> FALSE,
                   value |-> IF qr.hasQueryText THEN qr.queryText ELSE NoneVal]

\* the gateway with the exception text put into the reply
GenerateReplyLeaky(o) ==
    [calls |-> 1,
     reply |-> CASE o.kind = "raise" -> ApiErrorText \o " " \o o.error
                 [] o.kind = "no_candidates" -> NoCandidatesText
                 [] o.kind = "text_raises" -> ExtractErrorText \o " " \o o.error
                 [] OTHER -> Strip(o.text)]

\* the gateway calling a second time after a failed or empty call
GenerateReplyRetry(o) ==
    [calls |-> IF IsFailure(o) THEN 2 ELSE 1,
     reply |-> CASE o.kind = "raise" -> ApiErrorText
                 [] o.kind = "no_candidates" -> NoCandidatesText
                 [] o.kind = "text_raises" -> ExtractErrorText
                 [] OTHER -> Strip(o.text)]

\* the gateway returning the candidate text as it came
GenerateReplyUntrimmed(o) ==
    [calls |-> 1,
     reply |-> CASE o.kind = "raise" -> ApiErrorText
                 [] o.kind = "no_candidates" ->
                      NoCandidatesText \o (IF o.block_reason # ""
                                           THEN " (Reason: " \o o.block_reason \o ")" ELSE "")
                 [] o.kind = "text_raises" -> ExtractErrorText
                 [] OTHER -> o.text]

\* Step 1: one call of model.generate_content and the reply made of its outcome
GenerateReply(o) ==
    [calls |-> 1,
     reply |-> CASE o.kind = "raise" -> ApiErrorText
                 [] o.kind = "no_candidates" ->
                      NoCandidatesText \o (IF o.block_reason # ""
                                           THEN " (Reason: " \o o.block_reason \o ")" ELSE "")
                 [] o.kind = "text_raises" -> ExtractErrorText
                 [] OTHER -> Strip(o.text)]

RECURSIVE Bullets(_)
\* for link in resources: resources_text += f"- {link}\n"
Bullets(links) ==
    IF links = << >> THEN "" ELSE "- " \o Head(links) \o "\n" \o Bullets(Tail(links))

RECURSIVE BulletsReversed(_)
BulletsReversed(links) ==
    IF links = << >> THEN "" ELSE BulletsReversed(Tail(links)) \o "- " \o Head(links) \o "\n"

\* the block with the bullets in the opposite order
FormatResourcesReversed(links) == ResourcesHeader \o BulletsReversed(links)

\* resources_text
FormatResources(links) == ResourcesHeader \o Bullets(links)

\* the composition appending the header before the lookup result is known
ComposeReplyPartial(reply, lookup) ==
    IF lookup.raised THEN reply \o ResourcesHeader
    ELSE IF lookup.links # << >> THEN reply \o FormatResources(lookup.links)
    ELSE reply

\* Step 2: final_reply; a lookup that raised leaves final_reply = gemini_reply
ComposeReply(reply, lookup) ==
    IF lookup.raised THEN reply
    ELSE IF lookup.links # << >> THEN reply \o FormatResources(lookup.links)
    ELSE reply

Repeat(x, n) == [i \in 1..n |-> x]

\* an exit of the handler before the model call
EarlyExit(resp, tr) ==
    [response |-> resp, trace |-> tr, sent |-> << >>, user_message |-> NoneVal,
     gemini_reply |-> "", resources |-> << >>, resource_e |-> FALSE]

\* the whole handler
ask(mdl, table, body, o) ==
    IF mdl = "None" THEN EarlyExit(Jsonify(200, ModelDownText), <<"jsonify">>)
    ELSE LET req_data == get_json(body) IN
    IF IsInvalid(req_data)
    THEN EarlyExit(Jsonify(400, InvalidRequestText), <<"get_json", "jsonify">>)
    ELSE LET msg == ExtractUserMessage(body) IN
    IF msg.raised
    THEN EarlyExit(Jsonify(200, UnexpectedErrorText), <<"get_json", "jsonify">>)
    ELSE IF ~Truthy(msg.value)
    THEN EarlyExit(Jsonify(200, NoMessageText), <<"get_json", "jsonify">>)
    ELSE LET g == GenerateReply(o)
             lookup == get_resources_from_query(table, msg.value)
             final_reply == ComposeReply(g.reply, lookup)
         IN  [response |-> Jsonify(200, final_reply),
              trace |-> <<"get_json">> \o Repeat("generate_content", g.calls)
                        \o <<"get_resources_from_query", "jsonify">>,
              sent |-> Repeat(msg.value, g.calls),
              user_message |-> msg.value,
              gemini_reply |-> g.reply,
              resources |-> lookup.links,
              resource_e |-> lookup.raised]

(***************************************************************************)
(* Specification of the service                                            *)
(***************************************************************************)
Init ==
    /\ phase = "boot"
    /\ model = "None"
    /\ study_resources = StudyResources
    /\ request = NoBody
    /\ upstream = NoOutcome
    /\ response = NoResponse
    /\ trace = << >>
    /\ sent = << >>
    /\ user_message = NoneVal
    /\ gemini_reply = ""
    /\ resources = << >>
    /\ resource_e = FALSE
    /\ client = NoClient
    /\ rounds = 0
    /\ query = NoneVal
    /\ matched_links = << >>
    /\ applied = FALSE

\* the import of the module: lines 21-53
Startup ==
    /\ phase = "boot"
    /\ \E api_key \in BOOLEAN, configure_ok \in BOOLEAN, construct_ok \in BOOLEAN,
          test \in Outcomes :
          model' = InitModel(api_key, configure_ok, construct_ok, test)
    /\ phase' = "ready"
    /\ UNCHANGED <<study_resources, request, upstream, response, trace, sent,
                   user_message, gemini_reply, resources, resource_e, client, rounds>>
    /\ UNCHANGED matcherVars

Handle(body, o) ==
    LET r == ask(model, study_resources, body, o) IN
    /\ request' = body
    /\ upstream' = o
    /\ response' = r.response
    /\ trace' = r.trace
    /\ sent' = r.sent
    /\ user_message' = r.user_message
    /\ gemini_reply' = r.gemini_reply
    /\ resources' = r.resources
    /\ resource_e' = r.resource_e
    /\ phase' = "responded"
    /\ UNCHANGED <<model, study_resources, client>>
    /\ UNCHANGED matcherVars

\* one POST /ask with any body
Ask ==
    /\ phase = "ready"
    /\ \E body \in Bodies, o \in Outcomes : Handle(body, o)
    /\ rounds' = 0

\* the context a client finds in a response
ReturnedContext(resp) == IF "context" \in resp.keys THEN resp.context ELSE << >>

\* one POST /ask of a client that submits the context of the last response
RoundTrip ==
    /\ phase = "ready"
    /\ client.received
    /\ rounds < MaxRounds
    /\ \E m \in Messages, o \in Outcomes :
          Handle(ContextBody(client.context, StrVal(m)), o)
    /\ rounds' = rounds + 1

\* the response reaches the client and the request ends: the handler keeps
\* nothing of it, the client keeps the context it was given
Deliver ==
    /\ phase = "responded"
    /\ client' = [received |-> TRUE, context |-> ReturnedContext(response)]
    /\ phase' = "ready"
    /\ request' = NoBody
    /\ upstream' = NoOutcome
    /\ response' = NoResponse
    /\ trace' = << >>
    /\ sent' = << >>
    /\ user_message' = NoneVal
    /\ gemini_reply' = ""
    /\ resources' = << >>
    /\ resource_e' = FALSE
    /\ UNCHANGED <<model, study_resources, rounds>>
    /\ UNCHANGED matcherVars

Next == Startup \/ Ask \/ RoundTrip \/ Deliver

Spec == Init /\ [][Next]_vars

(***************************************************************************)
(* Specification of the matcher applied to a query                         *)
(***************************************************************************)
InitMatcher ==
    /\ phase = "boot"
    /\ model = "None"
    /\ study_resources = StudyResources
    /\ request = NoBody
    /\ upstream = NoOutcome
    /\ response = NoResponse
    /\ trace = << >>
    /\ sent = << >>
    /\ user_message = NoneVal
    /\ gemini_reply = ""
    /\ resources = << >>
    /\ resource_e = FALSE
    /\ client = NoClient
    /\ rounds = 0
    /\ query \in Queries
    /\ matched_links = << >>
    /\ applied = FALSE

Lookup ==
    /\ ~applied
    /\ matched_links' = get_resources_from_query(study_resources, query).links
    /\ applied' = TRUE
    /\ UNCHANGED <<query, study_resources>>
    /\ UNCHANGED askVars

NextMatcher == Lookup

SpecMatcher == InitMatcher /\ [][NextMatcher]_vars

(***************************************************************************)
(* Vocabulary of the properties                                            *)
(***************************************************************************)
Responded == phase = "responded"

Initialized == model = "GenerativeModel"

\* the body is absent, unparseable or a falsy JSON value
EmptyBody(b) == b.raw # "json" \/ ~b.val.nonempty

\* the body is a JSON object whose queryResult, when present, is an object
WebhookShaped(b) ==
    /\ b.raw = "json" /\ b.val.t = "dict" /\ b.val.nonempty
    /\ b.hasQueryResult => b.queryResult.val.t = "dict"

\* the webhook message of a webhook-shaped body is missing or empty
MessageMissing(b) ==
    \/ ~b.hasQueryResult
    \/ ~b.queryResult.hasQueryText
    \/ ~b.queryResult.queryText.nonempty

\* a truthy JSON value without get(), at the top or under queryResult
NotAnObject(b) == b.raw = "json" /\ b.val.nonempty /\ ~WebhookShaped(b)

\* the body carries a non-empty webhook message
HasMessage(b) == WebhookShaped(b) /\ ~MessageMissing(b)

\* the body has the context-carrying shape with a non-empty str message
HasCurrentMessage(b) ==
    /\ b.raw = "json" /\ b.hasContext /\ b.hasCurrentMessage
    /\ b.currentMessage.t = "str" /\ b.currentMessage.nonempty

SeqToSet(tr) == { tr[i] : i \in DOMAIN tr }

Count(e, tr) == Cardinality({ i \in DOMAIN tr : tr[i] = e })

Calls == Count("generate_content", trace)

StartsWith(s, prefix) == Len(prefix) <= Len(s) /\ SubSeq(s, 1, Len(prefix)) = prefix

AllSpace(s) == \A i \in 1..Len(s) : IsSpace(SubSeq(s, i, i))

\* r is t without its leading and trailing whitespace
IsTrimOf(r, t) ==
    \E i \in 1..(Len(t) + 1) : \E j \in (i - 1)..Len(t) :
        /\ r = SubSeq(t, i, j)
        /\ AllSpace(SubSeq(t, 1, i - 1))
        /\ AllSpace(SubSeq(t, j + 1, Len(t)))
        /\ j >= i => ~IsSpace(SubSeq(t, i, i)) /\ ~IsSpace(SubSeq(t, j, j))

\* the positions of the table whose keyword occurs in the lower-cased q
Hits(q) == { i \in 1..Len(StudyResources) : PyIn(StudyResources[i].keyword, Lower(q)) }

RECURSIVE LinksBefore(_, _)
\* how many links the hits before position i contribute
LinksBefore(hits, i) ==
    IF i <= 1 THEN 0
    ELSE LinksBefore(hits, i - 1)
         + (IF (i - 1) \in hits THEN Len(StudyResources[i - 1].links) ELSE 0)

\* r is the concatenation, in table order, of the link lists of the hits,
\* each taken once
IsConcatOfHits(r, hits) ==
    /\ Len(r) = LinksBefore(hits, Len(StudyResources) + 1)
    /\ \A i \in hits : \A j \in 1..Len(StudyResources[i].links) :
          r[LinksBefore(hits, i) + j] = StudyResources[i].links[j]

RECURSIVE Lines(_)
\* the lines of a text in which every line ends with a newline
Lines(s) ==
    IF s = "" THEN << >>
    ELSE LET n == CHOOSE k \in 1..(Len(s) + 1) :
                     /\ k <= Len(s) => SubSeq(s, k, k) = "\n"
                     /\ \A h \in 1..(k - 1) : SubSeq(s, h, h) # "\n"
         IN  IF n > Len(s) THEN << s \o "<no newline>" >>
             ELSE << SubSeq(s, 1, n - 1) >> \o Lines(SubSeq(s, n + 1, Len(s)))

HeaderLine == "**Here are some potentially helpful resources:**"

\* block is empty for no links, else a blank separator, the header line and
\* one bullet line per link, in order
IsResourcesBlock(block, links) ==
    IF links = << >> THEN block = ""
    ELSE /\ StartsWith(block, "\n\n")
         /\ LET ls == Lines(SubSeq(block, 3, Len(block))) IN
            /\ Len(ls) = 1 + Len(links)
            /\ ls[1] = HeaderLine
            /\ \A i \in 1..Len(links) : ls[i + 1] = "- " \o links[i]

Rest(s, prefix) == SubSeq(s, Len(prefix) + 1, Len(s))

\* the fixed reply of each kind of failure of the model call
IsFallbackFor(reply, o) ==
    CASE o.kind = "raise" -> reply = ApiErrorText
      [] o.kind = "text_raises" -> reply = ExtractErrorText
      [] o.kind = "no_candidates" ->
           \/ o.block_reason = "" /\ reply = NoCandidatesText
           \/ o.block_reason # "" /\ reply = NoCandidatesText \o " (Reason: " \o o.block_reason \o ")"
      [] OTHER -> FALSE

(***************************************************************************)
(* C1: whenever the model was never initialized, every POST /ask is        *)
(* answered with status 503 and the fixed "model connection is down" text. *)
(***************************************************************************)
C1_ModelDown503 ==
    (Responded /\ model = "None") =>
        /\ response.status = 503
        /\ response.fulfillmentText = ModelDownText

(***************************************************************************)
(* C2 as stated: with the model initialized, every request whose body is   *)
(* absent, unparseable, empty or not the expected object, or whose message *)
(* is empty or missing, is answered with status 400, never 200.            *)
(***************************************************************************)
C2_InvalidAlways400 ==
    (Responded /\ Initialized /\ ~HasMessage(request)) => response.status = 400

(***************************************************************************)
(* C2 amended: with the model initialized, an absent, unparseable or falsy *)
(* JSON body is answered with status 400 and the fixed invalid-request     *)
(* text; a JSON object whose message is missing or empty is answered with  *)
(* status 200 and the fixed no-message text; the model is called in        *)
(* neither case.                                                           *)
(***************************************************************************)
C2_InvalidBodyOrMessage ==
    (Responded /\ Initialized) =>
        /\ EmptyBody(request) =>
              /\ response.status = 400
              /\ response.fulfillmentText = InvalidRequestText
              /\ sent = << >>
        /\ (WebhookShaped(request) /\ MessageMissing(request)) =>
              /\ response.status = 200
              /\ response.fulfillmentText = NoMessageText
              /\ sent = << >>

C2_Witness ==
    /\ Responded /\ Initialized
    /\ request = WebhookBody(QueryResult(DictVal(TRUE), TRUE, StrVal("")))
    /\ response.status = 200
    /\ response.fulfillmentText = NoMessageText

(***************************************************************************)
(* C3: with the model initialized and a non-empty message, a failure of    *)
(* the model call (an exception, a text that cannot be extracted, no       *)
(* candidates) becomes the fixed fallback reply of that failure: status    *)
(* 200, and the error text is nowhere in fulfillmentText.                  *)
(***************************************************************************)
C3_FailureBecomesFallback ==
    (Responded /\ Initialized /\ HasMessage(request) /\ IsFailure(upstream)) =>
        /\ response.status = 200
        /\ IsFallbackFor(gemini_reply, upstream)
        /\ StartsWith(response.fulfillmentText, gemini_reply)
        /\ upstream.error # "" => ~PyIn(upstream.error, response.fulfillmentText)

C3_Witness ==
    /\ Responded /\ Initialized /\ HasMessage(request)
    /\ upstream.kind = "raise"
    /\ response.status = 200
    /\ StartsWith(response.fulfillmentText, ApiErrorText)

(***************************************************************************)
(* C4: an unexpected exception in the pipeline (a body or a queryResult    *)
(* that is no object) is answered with status 500 and the generic text.    *)
(***************************************************************************)
C4_Unexpected500 ==
    (Responded /\ Initialized /\ NotAnObject(request)) =>
        /\ response.status = 500
        /\ response.fulfillmentText = UnexpectedErrorText

\* the response to message m when the model is healthy: status 200, m is
\* what was sent to the model, and the text is the trimmed reply followed by
\* the resources block of the keywords that occur in m
AnsweredWithReplyAndResources(m) ==
    /\ response.status = 200
    /\ sent = << StrVal(m) >>
    /\ IsConcatOfHits(resources, Hits(m))
    /\ IsTrimOf(gemini_reply, upstream.text)
    /\ StartsWith(response.fulfillmentText, gemini_reply)
    /\ IsResourcesBlock(Rest(response.fulfillmentText, gemini_reply), resources)

(***************************************************************************)
(* C5 as stated: a request {"context": [...], "currentMessage": m} with    *)
(* non-empty m and a healthy model is answered 200 with the model's reply  *)
(* followed by the resources block of m, and m is sent to the model.       *)
(***************************************************************************)
C5_ContextShapeAnswered ==
    (Responded /\ Initialized /\ HasCurrentMessage(request)
       /\ upstream.kind = "candidates") =>
        AnsweredWithReplyAndResources(request.currentMessage.s)

(***************************************************************************)
(* C5 amended: a request {"queryResult": {"queryText": m}} with a          *)
(* non-empty string m and a healthy model is answered 200 with the model's *)
(* trimmed reply followed by the resources block of the keywords matched   *)
(* in m, and m is the one message sent to the model.                       *)
(***************************************************************************)
C5_WebhookShapeAnswered ==
    (Responded /\ Initialized /\ HasMessage(request)
       /\ request.queryResult.queryText.t = "str"
       /\ upstream.kind = "candidates") =>
        AnsweredWithReplyAndResources(request.queryResult.queryText.s)

C5_Witness ==
    /\ Responded /\ Initialized
    /\ request = WebhookBody(QueryResult(DictVal(TRUE), TRUE, StrVal("Explain photosynthesis")))
    /\ upstream.kind = "candidates" /\ upstream.text = " o\n"
    /\ sent = << StrVal("Explain photosynthesis") >>
    /\ resources = StudyResources[2].links
    /\ Len(response.fulfillmentText) > Len(ResourcesHeader)

(***************************************************************************)
(* C6 as stated: in successive round trips every response carries a        *)
(* context of at most 2 x D entries that ends with the newest user/bot     *)
(* pair.                                                                   *)
(***************************************************************************)
C6_ContextReturnedBounded ==
    (Responded /\ request.hasContext) =>
        /\ "context" \in response.keys
        /\ \E D \in 1..MaxDepth : Len(response.context) <= 2 * D
        /\ LET n == Len(response.context) IN
           /\ n >= 2
           /\ response.context[n - 1].role = "user"
           /\ response.context[n].role = "bot"
           /\ response.context[n].content = response.fulfillmentText

(***************************************************************************)
(* C6 amended: in any number of successive round trips, whatever context   *)
(* is submitted, no response carries a context field: the body has the     *)
(* single key fulfillmentText, so the context a client can feed back is    *)
(* empty and never grows.                                                  *)
(***************************************************************************)
C6_NoContextReturned ==
    /\ (Responded /\ request.hasContext) =>
          /\ response.keys = {"fulfillmentText"}
          /\ ReturnedContext(response) = << >>
    /\ client.received => client.context = << >>

C6_Witness ==
    /\ Responded /\ rounds >= 2
    /\ request.hasContext
    /\ response.status = 200
    /\ response.keys = {"fulfillmentText"}

(***************************************************************************)
(* C7: get_resources_from_query(q) is the concatenation, in table order,   *)
(* of the link lists of the keywords that are substrings of the            *)
(* lower-cased q, each once; it is empty for an empty or missing q and for *)
(* a q without keyword; study_resources is left as it was.                 *)
(***************************************************************************)
C7_MatcherContract ==
    applied =>
        /\ query.t = "str" => IsConcatOfHits(matched_links, Hits(query.s))
        /\ (query.t = "none" \/ query.s = "") => matched_links = << >>
        /\ (query.t = "str" /\ Hits(query.s) = {}) => matched_links = << >>
        /\ study_resources = StudyResources

C7_Witness ==
    /\ applied
    /\ query = StrVal("JEEjee")
    /\ matched_links = StudyResources[6].links

(***************************************************************************)
(* C8: one request calls the model at most once; not at all when the model *)
(* is uninitialized, the body invalid or the message empty; and the call   *)
(* comes before the response is produced.                                  *)
(***************************************************************************)
C8_AtMostOneCall ==
    Responded =>
        /\ Calls <= 1
        /\ Len(sent) = Calls
        /\ (model = "None" \/ ~HasMessage(request)) => Calls = 0
        /\ trace[Len(trace)] = "jsonify" /\ Count("jsonify", trace) = 1
        /\ \A i \in DOMAIN trace : trace[i] = "generate_content" => i < Len(trace)

C8_Witness ==
    /\ Responded /\ Initialized /\ HasMessage(request)
    /\ IsFailure(upstream)
    /\ Calls = 1

(***************************************************************************)
(* C9: when the resource lookup raises, the request completes with status  *)
(* 200 and fulfillmentText is exactly the model's reply or its fallback,   *)
(* with nothing of a resources block appended.                             *)
(***************************************************************************)
C9_LookupFailureIsolated ==
    /\ (Responded /\ resource_e) =>
          /\ response.status = 200
          /\ response.fulfillmentText = gemini_reply
    /\ (Responded /\ Initialized /\ HasMessage(request)
          /\ request.queryResult.queryText.t # "str") => resource_e

C9_Witness ==
    /\ Responded /\ resource_e
    /\ upstream.kind = "candidates" /\ gemini_reply = "o"
    /\ response.fulfillmentText = "o"

(***************************************************************************)
(* C10: on a request that reaches composition, fulfillmentText starts with *)
(* the gateway's reply (the trimmed candidate text or the fallback); it is *)
(* that reply alone when no keyword matches, and otherwise the reply, the  *)
(* header line and one bullet line per descriptor in the matcher's order.  *)
(***************************************************************************)
C10_ReplyThenResources ==
    (Responded /\ "get_resources_from_query" \in SeqToSet(trace)) =>
        /\ IF upstream.kind = "candidates" THEN IsTrimOf(gemini_reply, upstream.text)
           ELSE IsFallbackFor(gemini_reply, upstream)
        /\ StartsWith(response.fulfillmentText, gemini_reply)
        /\ IsResourcesBlock(Rest(response.fulfillmentText, gemini_reply), resources)
        /\ resources = << >> => response.fulfillmentText = gemini_reply
        /\ user_message.t = "str" => (resources = << >> <=> Hits(user_message.s) = {})
        /\ user_message.t = "str" => ~resource_e

C10_Witness ==
    /\ Responded
    /\ user_message = StrVal("JEE and Python")
    /\ Len(resources) = 4
    /\ Len(Lines(Rest(response.fulfillmentText, gemini_reply))) = 7

====
